---- MODULE Spec2Model ----
(***************************************************************************)
(* A model of the Advent of Code 2020 solutions: the per-day `main`       *)
(* programs, day5's seat parser, day11's seat grid, day20's tile grid,    *)
(* day22's card games and day24's parallel hexagon step.  Every day is an *)
(* independent program, so every day has its own variables and its own    *)
(* specification; a day's specification leaves the other days' variables  *)
(* at their initial (idle) values.                                         *)
(***************************************************************************)
EXTENDS Integers, Sequences, FiniteSets, TLC

VARIABLES
    day, input_file, main_pc, stdout,          \* the `main` of each day
    d5_input, d5_pc, d5_stdout,                \* day5: main, part1, part2
    active_hexes, simulated_hexes, d24_pc,     \* day24: simulate_step_par
    d24_snapshot,                              \* history: active_hexes as the step began
    e_tile, e_edges, e_ops,                    \* day20: a Tile, its Edges, the operations applied
    tg_tiles, tg_unmatched, tiles_to_place,    \* day20: TileGrid::insert_tiles
    relative_delta, tg_pc, debug_assertions,
    tg_input, tg_overwritten,                  \* history: the input tiles; a cell was overwritten
    player1, player2, c_pc, c_score,           \* day22: part1 (Combat)
    c_round,                                   \* history: the decks as the last round began
    rg_stack, rg_pc, rg_score,                 \* day22: part2 (RecursiveGame, one frame per game)
    rg_ended,                                  \* history: how the last game to end ended
    d11_part, d11_grid, d11_next_grid,         \* day11: part1 / part2 and their locals
    d11_pc, d11_result,                        \* day11: position in the loop, return value
    d8_instructions, d8_computer,              \* day8: the program and the Computer
    d8_pc, d8_result,                          \* day8: position and return value
    non_halting_set, d8_visited,               \* day8: part2's set and the part of it iterated
    d8_trace, d8_input,                        \* history: indexes executed, the parsed input
    d17_input, d17_data, d17_pc,               \* day17: part1's input, its Dimension, position
    d17_stdout, d17_result                     \* day17: the line part1 prints, its return value

main_vars == <<day, input_file, main_pc, stdout>>
d5_vars == <<d5_input, d5_pc, d5_stdout>>
d24_vars == <<active_hexes, simulated_hexes, d24_pc, d24_snapshot>>
edge_vars == <<e_tile, e_edges, e_ops>>
tg_vars == <<tg_tiles, tg_unmatched, tiles_to_place, relative_delta, tg_pc,
             debug_assertions, tg_input, tg_overwritten>>
combat_vars == <<player1, player2, c_pc, c_score, c_round>>
rg_vars == <<rg_stack, rg_pc, rg_score, rg_ended>>
d11_vars == <<d11_part, d11_grid, d11_next_grid, d11_pc, d11_result>>
d8_vars == <<d8_instructions, d8_computer, d8_pc, d8_result, non_halting_set, d8_visited,
             d8_trace, d8_input>>
d17_vars == <<d17_input, d17_data, d17_pc, d17_stdout, d17_result>>
vars == <<main_vars, d5_vars, d24_vars, edge_vars, tg_vars, combat_vars, rg_vars, d11_vars, d8_vars, d17_vars>>

\* what each day's actions leave unchanged: the other days
not_main == <<d5_vars, d24_vars, edge_vars, tg_vars, combat_vars, rg_vars, d11_vars, d8_vars, d17_vars>>
not_d5 == <<main_vars, d24_vars, edge_vars, tg_vars, combat_vars, rg_vars, d11_vars, d8_vars, d17_vars>>
not_d24 == <<main_vars, d5_vars, edge_vars, tg_vars, combat_vars, rg_vars, d11_vars, d8_vars, d17_vars>>
not_edge == <<main_vars, d5_vars, d24_vars, tg_vars, combat_vars, rg_vars, d11_vars, d8_vars, d17_vars>>
not_tg == <<main_vars, d5_vars, d24_vars, edge_vars, combat_vars, rg_vars, d11_vars, d8_vars, d17_vars>>
not_combat == <<main_vars, d5_vars, d24_vars, edge_vars, tg_vars, rg_vars, d11_vars, d8_vars, d17_vars>>
not_rg == <<main_vars, d5_vars, d24_vars, edge_vars, tg_vars, combat_vars, d11_vars, d8_vars, d17_vars>>
not_d11 == <<main_vars, d5_vars, d24_vars, edge_vars, tg_vars, combat_vars, rg_vars, d8_vars, d17_vars>>
not_d8 == <<main_vars, d5_vars, d24_vars, edge_vars, tg_vars, combat_vars, rg_vars, d11_vars, d17_vars>>
not_d17 == <<main_vars, d5_vars, d24_vars, edge_vars, tg_vars, combat_vars, rg_vars, d11_vars, d8_vars>>

\* ---------------------------------------------------------------- helpers

RECURSIVE SeqSum(_)
SeqSum(s) == IF s = <<>> THEN 0 ELSE Head(s) + SeqSum(Tail(s))

RECURSIVE Reverse(_)
Reverse(s) == IF s = <<>> THEN <<>> ELSE Append(Reverse(Tail(s)), Head(s))

Range(s) == {s[i] : i \in 1..Len(s)}

\* Body applied to value, with value evaluated once (a `let` binding)
With(value, Body(_)) == CHOOSE result \in {Body(v) : v \in {value}} : TRUE

\* all sequences over S of length lo..hi
SeqsOf(S, lo, hi) == UNION {[1..n -> S] : n \in lo..hi}

\* ------------------------------------------------------------------ main
\* The result a part computes is abstracted to a value in 0..MaxResult.
MaxResult == 1

Days == 1..25

Read == [op |-> "read"]
Println(label, part) == [op |-> "println", label |-> label, part |-> part]

Day1Main == <<Read, Println("Part 1 result is ", 1), Println("Part 1 result is ", 2)>>
Day2Main == <<Read, Println("Part 1 result is ", 1), Println("Part 2 result is ", 2)>>
Day3Main == <<Read, Println("Part 1 result is ", 1), Println("Part 2 result is ", 2)>>
Day4Main == <<Read, Println("Part 1 result is ", 1), Println("Part 2 result is ", 2)>>
Day5Main == <<Read, Println("Part 1 result is ", 1), Println("Part 2 result is ", 2)>>
Day6Main == <<Read, Println("Part 1 result is ", 1), Println("Part 2 result is ", 2)>>
Day7Main == <<Read, Println("Part 1 result is ", 1), Println("Part 2 result is ", 2)>>
Day8Main == <<Read, Println("Part 1 result is ", 1), Println("Part 2 result is ", 2)>>
Day9Main == <<Read, Println("Part 1 result is ", 1), Println("Part 2 result is ", 2)>>
Day10Main == <<Read, Println("Part 1 result is ", 1), Println("Part 2 result is ", 2)>>
Day11Main == <<Read, Println("Part 1 result is ", 1), Println("Part 2 result is ", 2)>>
Day12Main == <<Read, Println("Part 1 result is ", 1), Println("Part 2 result is ", 2)>>
Day13Main == <<Read, Println("Part 1 result is ", 1), Println("Part 2 result is ", 2)>>
Day14Main == <<Read, Println("Part 1 result is ", 1), Println("Part 2 result is ", 2)>>
\* day15, day23 and day25 take their input from a literal in main
Day15Main == <<Println("Part 1 result is ", 1), Println("Part 2 result is ", 2)>>
Day16Main == <<Read, Println("Part 1 result is ", 1), Println("Part 2 result is ", 2)>>
\* day17's part 2 lines are commented out
Day17Main == <<Read, Println("Part 1 result is ", 1)>>
Day18Main == <<Read, Println("Part 1 result is ", 1), Println("Part 2 result is ", 2)>>
Day19Main == <<Read, Println("Part 1 result is ", 1), Println("Part 2 result is ", 2)>>
Day20Main == <<Read, Println("Part 1 result is ", 1), Println("Part 2 result is ", 2)>>
Day21Main == <<Read, Println("Part 1 result is ", 1), Println("Part 2 result is ", 2)>>
Day22Main == <<Read, Println("Part 1 result is ", 1), Println("Part 2 result is ", 2)>>
Day23Main == <<Println("Part 1 result is ", 1), Println("Part 2 result is ", 2)>>
Day24Main == <<Read, Println("Part 1 result is ", 1), Println("Part 2 result is ", 2)>>
Day25Main == <<Println("Part 1 result is ", 1)>>

MainOf(d) ==
    <<Day1Main, Day2Main, Day3Main, Day4Main, Day5Main, Day6Main, Day7Main,
      Day8Main, Day9Main, Day10Main, Day11Main, Day12Main, Day13Main,
      Day14Main, Day15Main, Day16Main, Day17Main, Day18Main, Day19Main,
      Day20Main, Day21Main, Day22Main, Day23Main, Day24Main, Day25Main>>[d]

MainIdle ==
    /\ day = 0
    /\ input_file = "none"
    /\ main_pc = 0
    /\ stdout = <<>>

MainInit ==
    /\ day \in Days
    /\ input_file \in {"well-formed", "missing"}
    /\ main_pc = 1
    /\ stdout = <<>>

MainAtStatement == main_pc \in 1..Len(MainOf(day))

\* input_read::...("input").expect("failed to read input file")
MainRead ==
    /\ day \in Days
    /\ MainAtStatement
    /\ MainOf(day)[main_pc].op = "read"
    /\ main_pc' = IF input_file = "missing" THEN -1 ELSE main_pc + 1
    /\ UNCHANGED <<day, input_file, stdout, not_main>>

\* let partN_result = partN(&input); println!("<label>{}", partN_result);
MainPrintln ==
    /\ day \in Days
    /\ MainAtStatement
    /\ MainOf(day)[main_pc].op = "println"
    /\ \E value \in 0..MaxResult :
         stdout' = Append(stdout, [label |-> MainOf(day)[main_pc].label,
                                   part |-> MainOf(day)[main_pc].part,
                                   value |-> value])
    /\ main_pc' = main_pc + 1
    /\ UNCHANGED <<day, input_file, not_main>>

MainExited == day \in Days /\ main_pc = Len(MainOf(day)) + 1
MainAborted == main_pc = -1

\* ------------------------------------------------------------------ day5
HIGH_BIT_ROW == "B"
LOW_BIT_ROW == "F"
HIGH_BIT_COLUMN == "R"
LOW_BIT_COLUMN == "L"

\* Option<T>: None is the empty sequence, Some(x) the sequence of x alone
None == <<>>
Some(x) == <<x>>

\* Err(MalformedSeat)
MalformedSeat == [ok |-> FALSE]

\* a character outside ASCII, for String::is_ascii
NonAsciiChars == {"é"}

RECURSIVE Pow2(_)
Pow2(i) == IF i = 0 THEN 1 ELSE 2 * Pow2(i - 1)

\* for (i, c) in raw.chars().rev().enumerate() { if c == high { v |= 1 << i } }
BitsValue(raw, high) ==
    LET rev == Reverse(raw)
    IN  SeqSum([k \in 1..Len(rev) |-> IF rev[k] = high THEN Pow2(k - 1) ELSE 0])

\* Seat::try_from: Err(MalformedSeat) or Ok(Seat { row, column })
SeatTryFrom(value) ==
    IF (\E i \in 1..Len(value) : value[i] \in NonAsciiChars) \/ Len(value) # 10
    THEN MalformedSeat
    ELSE LET row_raw == SubSeq(value, 1, 7)
             column_raw == SubSeq(value, 8, 10)
         IN  IF \E i \in 1..7 : row_raw[i] \notin {HIGH_BIT_ROW, LOW_BIT_ROW}
             THEN MalformedSeat
             ELSE IF \E i \in 1..3 : column_raw[i] \notin {HIGH_BIT_COLUMN, LOW_BIT_COLUMN}
             THEN MalformedSeat
             ELSE [ok |-> TRUE,
                   row |-> BitsValue(row_raw, HIGH_BIT_ROW),
                   column |-> BitsValue(column_raw, HIGH_BIT_COLUMN)]

SeatId(seat) == seat.row * 8 + seat.column

\* s with x inserted before the first element greater than x (s is sorted)
RECURSIVE SortedInsert(_, _)
SortedInsert(s, x) ==
    IF s = <<>> THEN <<x>>
    ELSE IF x <= Head(s) THEN <<x>> \o s
    ELSE <<Head(s)>> \o SortedInsert(Tail(s), x)

RECURSIVE SortUnstable(_)
SortUnstable(s) == IF s = <<>> THEN <<>> ELSE SortedInsert(SortUnstable(Tail(s)), Head(s))

\* input.iter().map(Seat::try_from).filter(Result::is_ok).map(|seat| seat.unwrap().id())
RECURSIVE Day5SeatIds(_)
Day5SeatIds(input) ==
    IF input = <<>> THEN <<>>
    ELSE LET seat == SeatTryFrom(Head(input))
         IN  (IF seat.ok THEN <<SeatId(seat)>> ELSE <<>>) \o Day5SeatIds(Tail(input))

\* .max()
Day5Part1(input) ==
    LET ids == Day5SeatIds(input)
    IN  IF ids = <<>> THEN None
        ELSE Some(CHOOSE m \in Range(ids) : \A o \in Range(ids) : o <= m)

\* for (&prev, &next) in seat_ids.iter().tuple_windows() { if prev + 1 != next { gaps.push(prev + 1) } }
RECURSIVE Day5Gaps(_)
Day5Gaps(sorted) ==
    IF Len(sorted) < 2 THEN <<>>
    ELSE (IF sorted[1] + 1 # sorted[2] THEN <<sorted[1] + 1>> ELSE <<>>)
         \o Day5Gaps(Tail(sorted))

Day5Part2(input) ==
    LET seat_ids == SortUnstable(Day5SeatIds(input))
        gaps == Day5Gaps(seat_ids)
    IN  IF Len(gaps) # 1 /\ gaps # <<>> THEN None
        ELSE IF gaps = <<>> THEN None ELSE Some(gaps[Len(gaps)])

F7 == <<"F", "F", "F", "F", "F", "F", "F">>
\* the lines an input file is drawn from: seats 0, 1, 2, 4 and three malformed lines
Day5Lines ==
    { F7 \o <<"L", "L", "L">>, F7 \o <<"L", "L", "R">>, F7 \o <<"L", "R", "L">>,
      F7 \o <<"R", "L", "L">>,
      F7 \o <<"L", "L", "X">>, <<"F", "B", "L">>, <<"é">> \o F7 \o <<"L", "L">> }
MaxLines5 == 2

Day5Idle ==
    /\ d5_input = <<>>
    /\ d5_pc = "idle"
    /\ d5_stdout = <<>>

Day5Init ==
    /\ d5_input \in SeqsOf(Day5Lines, 1, MaxLines5)
    /\ d5_pc = "part1"
    /\ d5_stdout = <<>>

\* let part1_result = part1(&input).expect(..); println!("Part 1 result is {}", ..)
Day5RunPart1 ==
    /\ d5_pc = "part1"
    /\ LET r == Day5Part1(d5_input)
       IN  IF r = None
           THEN d5_pc' = "aborted" /\ UNCHANGED d5_stdout
           ELSE /\ d5_pc' = "part2"
                /\ d5_stdout' = Append(d5_stdout, <<"Part 1 result is ", r[1]>>)
    /\ UNCHANGED <<d5_input, not_d5>>

\* let part2_result = part2(&input).expect(..); println!("Part 2 result is {}", ..)
Day5RunPart2 ==
    /\ d5_pc = "part2"
    /\ LET r == Day5Part2(d5_input)
       IN  IF r = None
           THEN d5_pc' = "aborted" /\ UNCHANGED d5_stdout
           ELSE /\ d5_pc' = "exited"
                /\ d5_stdout' = Append(d5_stdout, <<"Part 2 result is ", r[1]>>)
    /\ UNCHANGED <<d5_input, not_d5>>

\* ----------------------------------------------------------------- day24
\* A hexagon is its location, a Point of three coordinates.
EAST_DIR == <<1, -1, 0>>
SOUTH_EAST_DIR == <<0, -1, 1>>
SOUTH_WEST_DIR == <<-1, 0, 1>>
WEST_DIR == <<-1, 1, 0>>
NORTH_WEST_DIR == <<0, 1, -1>>
NORTH_EAST_DIR == <<1, 0, -1>>

\* impl Add<(isize, isize, isize)> for &Point
PointAdd(point, rhs) == <<point[1] + rhs[1], point[2] + rhs[2], point[3] + rhs[3]>>

\* Hexagon::adjacent_hexes: the six neighbours, in the order of the vec!
adjacent_hexes(hex) ==
    <<PointAdd(hex, EAST_DIR), PointAdd(hex, SOUTH_EAST_DIR),
      PointAdd(hex, SOUTH_WEST_DIR), PointAdd(hex, WEST_DIR),
      PointAdd(hex, NORTH_WEST_DIR), PointAdd(hex, NORTH_EAST_DIR)>>

\* the hexagons the initial active set is drawn from: those within HexRadius
\* steps of the reference hexagon, at most MaxActive24 of them
HexRadius == 1
MaxActive24 == 3
HexDisk ==
    {p \in (-HexRadius..HexRadius) \X (-HexRadius..HexRadius) \X (-HexRadius..HexRadius) :
        p[1] + p[2] + p[3] = 0}

\* the closure of the parallel map deactivating only on more than two neighbours
SimulateHexagon_KeepsLonely(active, active_hexagon) ==
    LET neighbours == adjacent_hexes(active_hexagon)
        active_neighbours == Cardinality({i \in 1..6 : neighbours[i] \in active})
    IN  [hexagon |-> active_hexagon,
         neighbours |-> neighbours,
         should_deactivate |-> active_neighbours > 2]

\* the closure of the parallel map: one active hexagon's SimulatedHexagon,
\* its neighbours counted in the set the workers share
SimulateHexagon(active, active_hexagon) ==
    LET neighbours == adjacent_hexes(active_hexagon)
        active_neighbours == Cardinality({i \in 1..6 : neighbours[i] \in active})
    IN  [hexagon |-> active_hexagon,
         neighbours |-> neighbours,
         should_deactivate |-> active_neighbours = 0 \/ active_neighbours > 2]

\* a worker that removes its hexagon from the shared set as soon as it has decided
ActiveAfterWorker_EagerRemove(active, simulated) ==
    IF simulated.should_deactivate THEN active \ {simulated.hexagon} ELSE active

\* what a worker's closure does to the shared set: nothing, it only reads it
ActiveAfterWorker(active, simulated) == active

\* *all_adjacents.entry(neighbour).or_insert(0) += 1
CountEntry(all_adjacents, neighbour) ==
    [k \in DOMAIN all_adjacents \cup {neighbour} |->
        IF k = neighbour
        THEN (IF neighbour \in DOMAIN all_adjacents THEN all_adjacents[neighbour] ELSE 0) + 1
        ELSE all_adjacents[k]]

RECURSIVE CountNeighbours(_, _)
CountNeighbours(all_adjacents, neighbours) ==
    IF neighbours = <<>> THEN all_adjacents
    ELSE CountNeighbours(CountEntry(all_adjacents, Head(neighbours)), Tail(neighbours))

\* the first sequential loop: for simulated_hex in simulated_hexes { remove; count }
RECURSIVE ReduceLoop(_, _, _)
ReduceLoop(simulated, active, all_adjacents) ==
    IF simulated = <<>> THEN [active |-> active, all_adjacents |-> all_adjacents]
    ELSE LET simulated_hex == Head(simulated)
         IN  ReduceLoop(Tail(simulated),
                        IF simulated_hex.should_deactivate
                        THEN active \ {simulated_hex.hexagon} ELSE active,
                        CountNeighbours(all_adjacents, simulated_hex.neighbours))

\* the second loop: for (adjacent, count) in all_adjacents { if count == 2 { insert } }
InsertLoop(active, all_adjacents) ==
    active \cup {adjacent \in DOMAIN all_adjacents : all_adjacents[adjacent] = 2}

\* an empty HashMap
EmptyMap == [k \in {} |-> 0]

\* the orders a collection of the elements of set S can come in
Orders(S) == {o \in [1..Cardinality(S) -> S] : \A i, j \in 1..Cardinality(S) : o[i] = o[j] => i = j}

Day24Idle ==
    /\ active_hexes = {}
    /\ simulated_hexes = {}
    /\ d24_pc = "idle"
    /\ d24_snapshot = {}

\* simulate_step_par is entered with the set part2 built from the input
Day24Init ==
    /\ active_hexes \in {S \in SUBSET HexDisk : Cardinality(S) <= MaxActive24}
    /\ simulated_hexes = {}
    /\ d24_pc = "par_iter"
    /\ d24_snapshot = active_hexes

\* simulate_step_par is entered with a floor on which the reference hexagon
\* and its six neighbours may be active, at most MaxActiveAround of them
MaxActiveAround == 4
Day24InitAround ==
    /\ active_hexes \in {S \in SUBSET ({<<0, 0, 0>>} \cup Range(adjacent_hexes(<<0, 0, 0>>))) :
                            Cardinality(S) <= MaxActiveAround}
    /\ simulated_hexes = {}
    /\ d24_pc = "par_iter"
    /\ d24_snapshot = active_hexes

\* one task of active_hexes.par_iter().map(..): a worker takes any hexagon of
\* the snapshot no worker has taken yet
Day24Worker ==
    /\ d24_pc = "par_iter"
    /\ \E active_hexagon \in d24_snapshot \ {sh.hexagon : sh \in simulated_hexes} :
         LET simulated == SimulateHexagon(active_hexes, active_hexagon)
         IN  /\ simulated_hexes' = simulated_hexes \cup {simulated}
             /\ active_hexes' = ActiveAfterWorker(active_hexes, simulated)
    /\ UNCHANGED <<d24_pc, d24_snapshot, not_d24>>

\* .collect() returns once every task is done; then the two sequential loops
\* run, the Vec in the order the set was iterated in
Day24Reduce ==
    /\ d24_pc = "par_iter"
    /\ {sh.hexagon : sh \in simulated_hexes} = d24_snapshot
    /\ \E order \in Orders(simulated_hexes) :
         LET reduced == ReduceLoop(order, active_hexes, EmptyMap)
         IN  active_hexes' = InsertLoop(reduced.active, reduced.all_adjacents)
    /\ d24_pc' = "returned"
    /\ UNCHANGED <<simulated_hexes, d24_snapshot, not_d24>>

\* ----------------------------------------------------------------- day20
ACTIVE_PIXEL == "#"
INACTIVE_PIXEL == "."

\* Pixel::from(char)
PixelFrom(c) ==
    CASE c = ACTIVE_PIXEL -> "Active"
      [] c = INACTIVE_PIXEL -> "Inactive"

\* self.rows.iter().map(|row| row[idx]).collect()
RECURSIVE ColumnOf(_, _)
ColumnOf(rows, idx) ==
    IF rows = <<>> THEN <<>> ELSE <<Head(rows)[idx]>> \o ColumnOf(Tail(rows), idx)

\* Tile::column
TileColumn(tile, idx) == ColumnOf(tile.rows, idx)

\* (i..self.rows.len()).map(|i| { let mut column = self.column(i); column.reverse(); column })
RECURSIVE ReversedColumns(_, _)
ReversedColumns(tile, i) ==
    IF i > Len(tile.rows) THEN <<>>
    ELSE <<Reverse(TileColumn(tile, i))>> \o ReversedColumns(tile, i + 1)

\* Tile::rotate_clockwise: row i of the result is column i, reversed
TileRotateClockwise(tile) == [tile EXCEPT !.rows = ReversedColumns(tile, 1)]

\* Tile::flip_horizontally: self.rows.reverse()
TileFlipHorizontally(tile) == [tile EXCEPT !.rows = Reverse(tile.rows)]

\* Tile::rotate_n_clockwise
RECURSIVE TileRotateNClockwise(_, _)
TileRotateNClockwise(tile, n) ==
    IF n = 0 THEN tile
    ELSE With(TileRotateClockwise(tile), LAMBDA rotated : TileRotateNClockwise(rotated, n - 1))

TileTopRow(tile) == tile.rows[1]
TileBottomRow(tile) == tile.rows[Len(tile.rows)]
TileLeftColumn(tile) == TileColumn(tile, 1)
TileRightColumn(tile) == TileColumn(tile, Len(tile.rows[1]))

\* Tile::edges
TileEdges(tile) ==
    [id |-> tile.id,
     top |-> TileTopRow(tile),
     right |-> TileRightColumn(tile),
     bottom |-> TileBottomRow(tile),
     left |-> TileLeftColumn(tile)]

\* Edges::flip_horizontally: swap(top, bottom); right.reverse(); left.reverse()
EdgesFlipHorizontally(edges) ==
    [edges EXCEPT !.top = edges.bottom,
                  !.bottom = edges.top,
                  !.right = Reverse(edges.right),
                  !.left = Reverse(edges.left)]

\* Edges::rotate_clockwise without its two reversals
EdgesRotateClockwise_NoReverse(edges) ==
    [edges EXCEPT !.top = edges.left,
                  !.right = edges.top,
                  !.bottom = edges.right,
                  !.left = edges.bottom]

\* Edges::rotate_clockwise: three swaps through top, then top and bottom reversed
EdgesRotateClockwise(edges) ==
    LET s1 == [edges EXCEPT !.top = edges.right, !.right = edges.top]
        s2 == [s1 EXCEPT !.top = s1.bottom, !.bottom = s1.top]
        s3 == [s2 EXCEPT !.top = s2.left, !.left = s2.top]
    IN  [s3 EXCEPT !.top = Reverse(s3.top), !.bottom = Reverse(s3.bottom)]

\* the square tiles of side TileSide, and how many operations a run applies
TileSide == 3
MaxOps20 == 3
SquareTiles ==
    {[id |-> 2311, rows |-> rows] :
        rows \in [1..TileSide -> [1..TileSide -> {PixelFrom("#"), PixelFrom(".")}]]}

EdgeIdle ==
    /\ e_tile = <<>>
    /\ e_edges = <<>>
    /\ e_ops = <<>>

\* let mut tile = Tile::from(..); let mut edges = tile.edges();
EdgeInit ==
    /\ e_tile \in SquareTiles
    /\ e_edges = TileEdges(e_tile)
    /\ e_ops = <<>>

\* edges.rotate_clockwise(); tile.rotate_clockwise();
EdgeRotate ==
    /\ e_tile # <<>>
    /\ Len(e_ops) < MaxOps20
    /\ e_edges' = EdgesRotateClockwise(e_edges)
    /\ e_tile' = TileRotateClockwise(e_tile)
    /\ e_ops' = Append(e_ops, "rotate_clockwise")
    /\ UNCHANGED not_edge

\* edges.flip_horizontally(); tile.flip_horizontally();
EdgeFlip ==
    /\ e_tile # <<>>
    /\ Len(e_ops) < MaxOps20
    /\ e_edges' = EdgesFlipHorizontally(e_edges)
    /\ e_tile' = TileFlipHorizontally(e_tile)
    /\ e_ops' = Append(e_ops, "flip_horizontally")
    /\ UNCHANGED not_edge

\* ------------------------------------------------------- day20: TileGrid
\* From<&String> for Tile: the id of the first line, the pixels of the others
RECURSIVE PixelsFrom(_)
PixelsFrom(line) ==
    IF line = <<>> THEN <<>> ELSE <<PixelFrom(Head(line))>> \o PixelsFrom(Tail(line))

RECURSIVE RowsFrom(_)
RowsFrom(lines) ==
    IF lines = <<>> THEN <<>> ELSE <<PixelsFrom(Head(lines))>> \o RowsFrom(Tail(lines))

TileFrom(id, lines) == [id |-> id, rows |-> RowsFrom(lines)]

\* the nine tiles of the tests' sample input, in the order of the file
SampleInput ==
    <<
      TileFrom(2311, <<
          <<".",".","#","#",".","#",".",".","#",".">>,
          <<"#","#",".",".","#",".",".",".",".",".">>,
          <<"#",".",".",".","#","#",".",".","#",".">>,
          <<"#","#","#","#",".","#",".",".",".","#">>,
          <<"#","#",".","#","#",".","#","#","#",".">>,
          <<"#","#",".",".",".","#",".","#","#","#">>,
          <<".","#",".","#",".","#",".",".","#","#">>,
          <<".",".","#",".",".",".",".","#",".",".">>,
          <<"#","#","#",".",".",".","#",".","#",".">>,
          <<".",".","#","#","#",".",".","#","#","#">>>>),
      TileFrom(1951, <<
          <<"#",".","#","#",".",".",".","#","#",".">>,
          <<"#",".","#","#","#","#",".",".",".","#">>,
          <<".",".",".",".",".","#",".",".","#","#">>,
          <<"#",".",".",".","#","#","#","#","#","#">>,
          <<".","#","#",".","#",".",".",".",".","#">>,
          <<".","#","#","#",".","#","#","#","#","#">>,
          <<"#","#","#",".","#","#",".","#","#",".">>,
          <<".","#","#","#",".",".",".",".","#",".">>,
          <<".",".","#",".","#",".",".","#",".","#">>,
          <<"#",".",".",".","#","#",".","#",".",".">>>>),
      TileFrom(1171, <<
          <<"#","#","#","#",".",".",".","#","#",".">>,
          <<"#",".",".","#","#",".","#",".",".","#">>,
          <<"#","#",".","#",".",".","#",".","#",".">>,
          <<".","#","#","#",".","#","#","#","#",".">>,
          <<".",".","#","#","#",".","#","#","#","#">>,
          <<".","#","#",".",".",".",".","#","#",".">>,
          <<".","#",".",".",".","#","#","#","#",".">>,
          <<"#",".","#","#",".","#","#","#","#",".">>,
          <<"#","#","#","#",".",".","#",".",".",".">>,
          <<".",".",".",".",".","#","#",".",".",".">>>>),
      TileFrom(1427, <<
          <<"#","#","#",".","#","#",".","#",".",".">>,
          <<".","#",".",".","#",".","#","#",".",".">>,
          <<".","#",".","#","#",".","#",".",".","#">>,
          <<"#",".","#",".","#",".","#","#",".","#">>,
          <<".",".",".",".","#",".",".",".","#","#">>,
          <<".",".",".","#","#",".",".","#","#",".">>,
          <<".",".",".","#",".","#","#","#","#","#">>,
          <<".","#",".","#","#","#","#",".","#",".">>,
          <<".",".","#",".",".","#","#","#",".","#">>,
          <<".",".","#","#",".","#",".",".","#",".">>>>),
      TileFrom(1489, <<
          <<"#","#",".","#",".","#",".",".",".",".">>,
          <<".",".","#","#",".",".",".","#",".",".">>,
          <<".","#","#",".",".","#","#",".",".",".">>,
          <<".",".","#",".",".",".","#",".",".",".">>,
          <<"#","#","#","#","#",".",".",".","#",".">>,
          <<"#",".",".","#",".","#",".","#",".","#">>,
          <<".",".",".","#",".","#",".","#",".",".">>,
          <<"#","#",".","#",".",".",".","#","#",".">>,
          <<".",".","#","#",".","#","#",".","#","#">>,
          <<"#","#","#",".","#","#",".","#",".",".">>>>),
      TileFrom(2473, <<
          <<"#",".",".",".",".","#","#","#","#",".">>,
          <<"#",".",".","#",".","#","#",".",".",".">>,
          <<"#",".","#","#",".",".","#",".",".",".">>,
          <<"#","#","#","#","#","#",".","#",".","#">>,
          <<".","#",".",".",".","#",".","#",".","#">>,
          <<".","#","#","#","#","#","#","#","#","#">>,
          <<".","#","#","#",".","#",".",".","#",".">>,
          <<"#","#","#","#","#","#","#","#",".","#">>,
          <<"#","#",".",".",".","#","#",".","#",".">>,
          <<".",".","#","#","#",".","#",".","#",".">>>>),
      TileFrom(2971, <<
          <<".",".","#",".","#",".",".",".",".","#">>,
          <<"#",".",".",".","#","#","#",".",".",".">>,
          <<"#",".","#",".","#","#","#",".",".",".">>,
          <<"#","#",".","#","#",".",".","#",".",".">>,
          <<".","#","#","#","#","#",".",".","#","#">>,
          <<".","#",".",".","#","#","#","#",".","#">>,
          <<"#",".",".","#",".","#",".",".","#",".">>,
          <<".",".","#","#","#","#",".","#","#","#">>,
          <<".",".","#",".","#",".","#","#","#",".">>,
          <<".",".",".","#",".","#",".","#",".","#">>>>),
      TileFrom(2729, <<
          <<".",".",".","#",".","#",".","#",".","#">>,
          <<"#","#","#","#",".","#",".",".",".",".">>,
          <<".",".","#",".","#",".",".",".",".",".">>,
          <<".",".",".",".","#",".",".","#",".","#">>,
          <<".","#","#",".",".","#","#",".","#",".">>,
          <<".","#",".","#","#","#","#",".",".",".">>,
          <<"#","#","#","#",".","#",".","#",".",".">>,
          <<"#","#",".","#","#","#","#",".",".",".">>,
          <<"#","#",".",".","#",".","#","#",".",".">>,
          <<"#",".","#","#",".",".",".","#","#",".">>>>),
      TileFrom(3079, <<
          <<"#",".","#",".","#","#","#","#","#",".">>,
          <<".","#",".",".","#","#","#","#","#","#">>,
          <<".",".","#",".",".",".",".",".",".",".">>,
          <<"#","#","#","#","#","#",".",".",".",".">>,
          <<"#","#","#","#",".","#",".",".","#",".">>,
          <<".","#",".",".",".","#",".","#","#",".">>,
          <<"#",".","#","#","#","#","#",".","#","#">>,
          <<".",".","#",".","#","#","#",".",".",".">>,
          <<".",".","#",".",".",".",".",".",".",".">>,
          <<".",".","#",".","#","#","#",".",".",".">>>>)
    >>

\* Edges::direct_match: the side of self the other tile lies on, as it is oriented
EdgesDirectMatch(self, other) ==
    IF self.top = other.bottom THEN Some("Top")
    ELSE IF self.right = other.left THEN Some("Right")
    ELSE IF self.bottom = other.top THEN Some("Bottom")
    ELSE IF self.left = other.right THEN Some("Left")
    ELSE None

\* Edges::reversed
EdgesReversed(edges) ==
    [edges EXCEPT !.top = Reverse(edges.top), !.right = Reverse(edges.right),
                  !.bottom = Reverse(edges.bottom), !.left = Reverse(edges.left)]

\* Edges::matches: some edge of self, as it is or reversed, is an edge of other
EdgesMatches(self, other) ==
    LET self_reversed == EdgesReversed(self)
        all_self == {self.top, self.right, self.bottom, self.left,
                     self_reversed.top, self_reversed.right,
                     self_reversed.bottom, self_reversed.left}
    IN  \E self_edge \in all_self :
            \E other_edge \in {other.top, other.right, other.bottom, other.left} :
                self_edge = other_edge

\* for i in 1..=3 { other_edges.rotate_clockwise(); if let Some(side) = .. }:
\* [side, n, edges]: the side matched after n rotations, or None and the
\* edges after the three rotations
RECURSIVE TryRotations(_, _, _)
TryRotations(self_edges, other_edges, i) ==
    IF i > 3 THEN [side |-> None, n |-> 0, edges |-> other_edges]
    ELSE With(EdgesRotateClockwise(other_edges), LAMBDA rotated :
         With(EdgesDirectMatch(self_edges, rotated), LAMBDA side :
            IF side # None THEN [side |-> side, n |-> i, edges |-> rotated]
            ELSE TryRotations(self_edges, rotated, i + 1)))

\* Tile::try_match: [side, other]: the matched side, if any, and the other
\* tile as try_match leaves it (rotated and flipped into the matching
\* orientation).  side is Some("unreachable") where the code reaches
\* unreachable!().
TileTryMatch(self, other) ==
    With(TileEdges(self), LAMBDA self_edges :
    With(TileEdges(other), LAMBDA other_edges :
      IF ~EdgesMatches(self_edges, other_edges) THEN [side |-> None, other |-> other]
      ELSE
        With(EdgesDirectMatch(self_edges, other_edges), LAMBDA direct :
          IF direct # None THEN [side |-> direct, other |-> other]
          ELSE
            With(TryRotations(self_edges, other_edges, 1), LAMBDA plain :
              IF plain.side # None
              THEN [side |-> plain.side, other |-> TileRotateNClockwise(other, plain.n)]
              ELSE
                \* reset: a fourth rotation; then the flip
                With(EdgesFlipHorizontally(EdgesRotateClockwise(plain.edges)), LAMBDA flipped_edges :
                With(TileFlipHorizontally(other), LAMBDA flipped :
                With(EdgesDirectMatch(self_edges, flipped_edges), LAMBDA flipped_direct :
                  IF flipped_direct # None THEN [side |-> flipped_direct, other |-> flipped]
                  ELSE
                    With(TryRotations(self_edges, flipped_edges, 1), LAMBDA turned :
                      IF turned.side # None
                      THEN [side |-> turned.side,
                            other |-> TileRotateNClockwise(flipped, turned.n)]
                      ELSE [side |-> Some("unreachable"), other |-> other]))))))))

\* VecDeque::rotate_right(1)
RotateRight1(deque) ==
    IF deque = <<>> THEN deque
    ELSE <<deque[Len(deque)]>> \o SubSeq(deque, 1, Len(deque) - 1)

\* TileGrid::new(size)
TileGridNew(size) == [y \in 1..size |-> [x \in 1..size |-> None]]

\* self.tiles[y][x], x and y counted from 0 as in the code
CellAt(tiles, x, y) == tiles[y + 1][x + 1]
InGrid(tiles, x, y) == y + 1 \in 1..Len(tiles) /\ x + 1 \in 1..Len(tiles[y + 1])

\* debug_assert!(self.tiles[y][x].is_none()); self.tiles[y][x] = Some(tile);
\* [panic, tiles, overwritten]
SetCell(tiles, x, y, tile, debug) ==
    IF ~InGrid(tiles, x, y)
    THEN [panic |-> TRUE, tiles |-> tiles, overwritten |-> FALSE]
    ELSE IF debug /\ CellAt(tiles, x, y) # None
    THEN [panic |-> TRUE, tiles |-> tiles, overwritten |-> FALSE]
    ELSE [panic |-> FALSE,
          tiles |-> [tiles EXCEPT ![y + 1][x + 1] = Some(tile)],
          overwritten |-> CellAt(tiles, x, y) # None]

\* TileGrid::shift_all_down: [panic, tiles]
ShiftAllDown(tiles) ==
    LET shifted == RotateRight1(tiles)
    IN  [panic |-> \E x \in 1..Len(shifted[1]) : shifted[1][x] # None,
         tiles |-> shifted]

\* TileGrid::shift_all_right: [panic, tiles]
ShiftAllRight(tiles) ==
    LET shifted == [y \in 1..Len(tiles) |-> RotateRight1(tiles[y])]
    IN  [panic |-> \E y \in 1..Len(shifted) : shifted[y][1] # None,
         tiles |-> shifted]

\* the delta insert_tiles keeps after an insert_tile that returned Some(delta):
\* relative_delta.0 = delta.0; relative_delta.1 = delta.1
DeltaAfterShift(old_delta, delta) == delta

\* TileGrid::insert_tile: [panic, tiles, overwritten, delta]
TileGridInsertTile(tiles, relative_to, side, tile, debug) ==
    LET x == relative_to[1]
        y == relative_to[2]
        Plain(set) == set @@ [delta |-> None]
        Shifted(shift, d) ==
            IF shift.panic
            THEN [panic |-> TRUE, tiles |-> tiles, overwritten |-> FALSE, delta |-> None]
            ELSE SetCell(shift.tiles, x, y, tile, debug) @@ [delta |-> Some(d)]
    IN  CASE side = "Top" ->
                IF y = 0 THEN Shifted(ShiftAllDown(tiles), <<0, 1>>)
                ELSE Plain(SetCell(tiles, x, y - 1, tile, debug))
          [] side = "Right" -> Plain(SetCell(tiles, x + 1, y, tile, debug))
          [] side = "Bottom" -> Plain(SetCell(tiles, x, y + 1, tile, debug))
          [] side = "Left" ->
                IF x = 0 THEN Shifted(ShiftAllRight(tiles), <<1, 0>>)
                ELSE Plain(SetCell(tiles, x - 1, y, tile, debug))

\* for unmatched_tile in tiles.iter_mut().filter(|tile| tile.is_some()): from
\* index i on; [unmatched, to_place, unreachable]
RECURSIVE ScanUnmatched(_, _, _, _, _)
ScanUnmatched(tile, position, i, unmatched, to_place) ==
    IF i > Len(unmatched)
    THEN [unmatched |-> unmatched, to_place |-> to_place, unreachable |-> FALSE]
    ELSE IF unmatched[i] = None
    THEN ScanUnmatched(tile, position, i + 1, unmatched, to_place)
    ELSE With(TileTryMatch(tile, unmatched[i][1]), LAMBDA m :
            IF m.side = None
            THEN ScanUnmatched(tile, position, i + 1, unmatched, to_place)
            ELSE IF m.side = Some("unreachable")
            THEN [unmatched |-> unmatched, to_place |-> to_place, unreachable |-> TRUE]
            ELSE With([unmatched EXCEPT ![i] = None], LAMBDA taken :
                 With(Append(to_place, [relative_position |-> position,
                                        matched_side |-> m.side[1],
                                        tile |-> m.other]), LAMBDA pushed :
                    ScanUnmatched(tile, position, i + 1, taken, pushed))))

\* the cells of an n x n grid in the order of the two for loops: rows, then columns
ScanOrder(n) == [k \in 1..(n * n) |-> <<(k - 1) % n, (k - 1) \div n>>]

\* for (y, row) .. for (x, existing_tile) .. .filter(is_some): from cell k on
RECURSIVE ScanGrid(_, _, _, _)
ScanGrid(tiles, k, unmatched, to_place) ==
    IF k > Len(tiles) * Len(tiles)
    THEN [unmatched |-> unmatched, to_place |-> to_place, unreachable |-> FALSE]
    ELSE With(ScanOrder(Len(tiles))[k], LAMBDA position :
         With(CellAt(tiles, position[1], position[2]), LAMBDA cell :
            IF cell = None THEN ScanGrid(tiles, k + 1, unmatched, to_place)
            ELSE With(ScanUnmatched(cell[1], position, 1, unmatched, to_place), LAMBDA r :
                    IF r.unreachable THEN r
                    ELSE With(r.unmatched, LAMBDA u : With(r.to_place, LAMBDA tp :
                            ScanGrid(tiles, k + 1, u, tp))))))

\* the input put in another order: rotated by k places, then possibly reversed
RotateLeft(seq, k) == [i \in 1..Len(seq) |-> seq[((i - 1 + k) % Len(seq)) + 1]]
InputOrders ==
    {IF rev THEN Reverse(RotateLeft(SampleInput, k)) ELSE RotateLeft(SampleInput, k) :
        k \in 0..(Len(SampleInput) - 1), rev \in BOOLEAN}

\* side_len of part1: the grid is side_len x side_len
SideLen(tiles) == CHOOSE n \in 0..Len(tiles) : n * n = Len(tiles)

TgIdle ==
    /\ tg_tiles = <<>>
    /\ tg_unmatched = <<>>
    /\ tiles_to_place = <<>>
    /\ relative_delta = <<0, 0>>
    /\ tg_pc = "idle"
    /\ debug_assertions = FALSE
    /\ tg_input = <<>>
    /\ tg_overwritten = FALSE

\* let mut tile_grid = TileGrid::new(side_len); tile_grid.insert_tiles(tiles);
\* debug_assertions is the build: on in a debug build, off in a release build
TgInit ==
    /\ tg_input \in InputOrders
    /\ debug_assertions \in BOOLEAN
    /\ tg_tiles = TileGridNew(SideLen(tg_input))
    /\ tg_unmatched = [i \in 1..Len(tg_input) |-> Some(tg_input[i])]
    /\ tiles_to_place = <<>>
    /\ relative_delta = <<0, 0>>
    /\ tg_pc = "start"
    /\ tg_overwritten = FALSE

\* self.tiles[0][0] = tiles.pop().unwrap();
TgStart ==
    /\ tg_pc = "start"
    /\ tg_tiles' = [tg_tiles EXCEPT ![1][1] = tg_unmatched[Len(tg_unmatched)]]
    /\ tg_unmatched' = SubSeq(tg_unmatched, 1, Len(tg_unmatched) - 1)
    /\ tg_pc' = "loop"
    /\ UNCHANGED <<tiles_to_place, relative_delta, debug_assertions, tg_input,
                   tg_overwritten, not_tg>>

AllTaken == \A i \in 1..Len(tg_unmatched) : tg_unmatched[i] = None

\* a round's scan: every tile of the grid is tried against every tile not yet
\* matched; the matched ones are taken out of `tiles` into tiles_to_place
TgScan ==
    /\ tg_pc = "loop"
    /\ ~AllTaken
    /\ \E r \in {ScanGrid(tg_tiles, 1, tg_unmatched, <<>>)} :
           /\ tg_unmatched' = r.unmatched
           /\ tiles_to_place' = r.to_place
           /\ tg_pc' = IF r.unreachable THEN "panicked" ELSE "place"
    /\ relative_delta' = <<0, 0>>
    /\ UNCHANGED <<tg_tiles, debug_assertions, tg_input, tg_overwritten, not_tg>>

\* one turn of `for (relative_position, matched_side, tile) in tiles_to_place`
TgInsert ==
    /\ tg_pc = "place"
    /\ tiles_to_place # <<>>
    /\ \E r \in {LET next == Head(tiles_to_place)
                      true_relative == <<next.relative_position[1] + relative_delta[1],
                                         next.relative_position[2] + relative_delta[2]>>
                  IN  TileGridInsertTile(tg_tiles, true_relative, next.matched_side,
                                         next.tile, debug_assertions)} :
           /\ tg_tiles' = r.tiles
           /\ tg_pc' = IF r.panic THEN "panicked" ELSE "place"
           /\ tg_overwritten' = (tg_overwritten \/ r.overwritten)
           /\ relative_delta' = IF r.delta = None THEN relative_delta
                                 ELSE DeltaAfterShift(relative_delta, r.delta[1])
    /\ tiles_to_place' = Tail(tiles_to_place)
    /\ UNCHANGED <<tg_unmatched, debug_assertions, tg_input, not_tg>>

\* the for loop is over: back to the top of `loop`
TgEndRound ==
    /\ tg_pc = "place"
    /\ tiles_to_place = <<>>
    /\ tg_pc' = "loop"
    /\ UNCHANGED <<tg_tiles, tg_unmatched, tiles_to_place, relative_delta,
                   debug_assertions, tg_input, tg_overwritten, not_tg>>

\* if tiles.iter().all(|tile| tile.is_none()) { break; }
TgReturn ==
    /\ tg_pc = "loop"
    /\ AllTaken
    /\ tg_pc' = "returned"
    /\ UNCHANGED <<tg_tiles, tg_unmatched, tiles_to_place, relative_delta,
                   debug_assertions, tg_input, tg_overwritten, not_tg>>

\* ----------------------------------------------------------------- day22
\* Player::clone_with_n_first copying the whole deck
clone_with_n_first_Whole(deck, n) == deck

\* Player::clone_with_n_first: self.deck.iter().take(n).cloned().collect()
clone_with_n_first(deck, n) == SubSeq(deck, 1, IF n < Len(deck) THEN n ELSE Len(deck))

\* Player::insert_won with the two cards pushed in the other order
insert_won_SecondFirst(deck, cards) == Append(Append(deck, cards[2]), cards[1])

\* Player::insert_won: push_back(cards.0); push_back(cards.1)
insert_won(deck, cards) == Append(Append(deck, cards[1]), cards[2])

\* Player::calculate_final_score: deck.iter().rev().enumerate().map(|(i, card)| (i + 1) * card).sum()
calculate_final_score(deck) ==
    LET rev == Reverse(deck)
    IN  SeqSum([i \in 1..Len(rev) |-> i * rev[i]])

\* the cards of a game are 1..MaxCard; a deck holds each card at most once and
\* the two decks share no card
MaxCard == 6
RECURSIVE Arrangements(_)
Arrangements(S) ==
    IF S = {} THEN {<<>>}
    ELSE UNION {{<<card>> \o rest : rest \in Arrangements(S \ {card})} : card \in S}
\* the decks parsed from the input: some of the cards in some order, dealt to
\* player 1 up to a cut and to player 2 after it
Dealt(deck1, deck2) ==
    \E S \in SUBSET (1..MaxCard) : \E o \in Arrangements(S) : \E k \in 0..Len(o) :
        /\ deck1 = SubSeq(o, 1, k)
        /\ deck2 = SubSeq(o, k + 1, Len(o))

CombatIdle ==
    /\ player1 = <<>>
    /\ player2 = <<>>
    /\ c_pc = "idle"
    /\ c_score = 0
    /\ c_round = <<>>

\* let mut player1 = Player::from(&input[0]); let mut player2 = Player::from(&input[1]);
CombatInit ==
    /\ Dealt(player1, player2)
    /\ c_pc = "loop"
    /\ c_score = 0
    /\ c_round = <<>>

\* Player::play_round returning None: both players play a card, the winner takes both
CombatPlayRound ==
    /\ c_pc = "loop"
    /\ player1 # <<>>
    /\ player2 # <<>>
    /\ LET played1 == Head(player1)
           played2 == Head(player2)
       IN  IF played1 > played2
           THEN /\ player1' = insert_won(Tail(player1), <<played1, played2>>)
                /\ player2' = Tail(player2)
           ELSE /\ player1' = Tail(player1)
                /\ player2' = insert_won(Tail(player2), <<played2, played1>>)
    /\ c_round' = <<player1, player2>>
    /\ UNCHANGED <<c_pc, c_score, not_combat>>

\* Player::play_round returning Some(result), and part1's return of the score
CombatGameOver ==
    /\ c_pc = "loop"
    /\ player1 = <<>> \/ player2 = <<>>
    /\ c_score' = IF player1 = <<>>
                  THEN calculate_final_score(player2)   \* Some(false): self lost
                  ELSE calculate_final_score(player1)   \* Some(true)
    /\ c_pc' = "returned"
    /\ UNCHANGED <<player1, player2, c_round, not_combat>>

\* RecursiveGame: a game is a frame [player1, player2, previously_played,
\* played]; rg_stack holds the game being played last and, below it, the games
\* waiting in new_game.play() for it.  played is <<played1, played2>> of the
\* round that waits for the sub-game, <<>> otherwise.  round_starts (history)
\* is the set of deck pairs the rounds of the game began with.
NewGame(deck1, deck2) ==
    [player1 |-> deck1, player2 |-> deck2, previously_played |-> {},
     played |-> <<>>, round_starts |-> {}]

\* what play_round puts into previously_played: the decks cloned before the draw
PlayedConfiguration(deck1, deck2) == <<deck1, deck2>>

\* the winner of a round that does not recurse: played1 > played2
HigherCardWins(played1, played2) == played1 > played2

\* the frame after its round is won: the winner's insert_won
RoundWon(game, played1, played2, player1_won) ==
    IF player1_won
    THEN [game EXCEPT !.player1 = insert_won(game.player1, <<played1, played2>>),
                      !.played = <<>>]
    ELSE [game EXCEPT !.player2 = insert_won(game.player2, <<played2, played1>>),
                      !.played = <<>>]

\* RecursiveGame::play_round with Some(false) for decks played before
RoundResult_RepeatLoses(game) ==
    IF game.player1 = <<>> THEN Some(FALSE)
    ELSE IF game.player2 = <<>> THEN Some(TRUE)
    ELSE IF <<game.player1, game.player2>> \in game.previously_played
    THEN Some(FALSE)
    ELSE None

\* RecursiveGame::play_round returns Some(result) for this game: Some(false)
\* when player1 has no card, Some(true) when player2 has none or the decks
\* were played before; None: the round goes on
RoundResult(game) ==
    IF game.player1 = <<>> THEN Some(FALSE)
    ELSE IF game.player2 = <<>> THEN Some(TRUE)
    ELSE IF PlayedConfiguration(game.player1, game.player2) \in game.previously_played
    THEN Some(TRUE)
    ELSE None

RgIdle ==
    /\ rg_stack = <<>>
    /\ rg_pc = "idle"
    /\ rg_score = 0
    /\ rg_ended = <<>>

\* let mut recursive_game = RecursiveGame::new(player1, player2);
RgInit ==
    /\ \E S \in SUBSET (1..MaxCard) : \E o \in Arrangements(S) : \E k \in 0..Len(o) :
          rg_stack = <<NewGame(SubSeq(o, 1, k), SubSeq(o, k + 1, Len(o)))>>
    /\ rg_pc = "play"
    /\ rg_score = 0
    /\ rg_ended = <<>>

RgTop == rg_stack[Len(rg_stack)]

\* play_round of the game on top, from the draw on: both play a card, the
\* decks before the draw are remembered, and either a new game is started
\* on copies of the next cards or the higher card wins the round
RgPlayRound ==
    /\ rg_pc = "play"
    /\ RoundResult(RgTop) = None
    /\ LET game == RgTop
           played1 == Head(game.player1)
           played2 == Head(game.player2)
           drawn == [game EXCEPT
                        !.player1 = Tail(game.player1),
                        !.player2 = Tail(game.player2),
                        !.previously_played =
                            @ \cup {PlayedConfiguration(game.player1, game.player2)},
                        !.round_starts = @ \cup {<<game.player1, game.player2>>}]
       IN  IF played1 <= Len(drawn.player1) /\ played2 <= Len(drawn.player2)
           THEN rg_stack' =
                    [rg_stack EXCEPT ![Len(rg_stack)] = [drawn EXCEPT !.played = <<played1, played2>>]]
                    \o <<NewGame(clone_with_n_first(drawn.player1, played1),
                                 clone_with_n_first(drawn.player2, played2))>>
           ELSE rg_stack' =
                    [rg_stack EXCEPT ![Len(rg_stack)] =
                        RoundWon(drawn, played1, played2, HigherCardWins(played1, played2))]
    /\ UNCHANGED <<rg_pc, rg_score, rg_ended, not_rg>>

\* play_round of the game on top returns Some(result), so play() returns: a
\* sub-game's result decides the round of the game that waits for it; the
\* result of the first game gives part2 the deck to score
RgGameOver ==
    /\ rg_pc = "play"
    /\ RoundResult(RgTop) # None
    /\ LET result == RoundResult(RgTop)[1]
           depth == Len(rg_stack)
       IN  /\ rg_ended' = [depth |-> depth, player1_won |-> result,
                           player1 |-> RgTop.player1, player2 |-> RgTop.player2]
           /\ IF depth = 1
              THEN /\ rg_score' = IF result THEN calculate_final_score(RgTop.player1)
                                            ELSE calculate_final_score(RgTop.player2)
                   /\ rg_pc' = "returned"
                   /\ UNCHANGED rg_stack
              ELSE /\ rg_stack' =
                        LET parent == rg_stack[depth - 1]
                        IN  SubSeq(rg_stack, 1, depth - 2)
                            \o <<RoundWon(parent, parent.played[1], parent.played[2], result)>>
                   /\ UNCHANGED <<rg_pc, rg_score>>
    /\ UNCHANGED not_rg

\* ----------------------------------------------------------------- day11
EMPTY_SEAT == "L"
OCCUPIED_SEAT == "#"
FLOOR == "."

\* impl From<char> for Seat (any other character panics)
SeatFrom(value) ==
    CASE value = EMPTY_SEAT -> "Empty"
      [] value = OCCUPIED_SEAT -> "Occupied"
      [] value = FLOOR -> "Floor"

\* Seat::swap
SeatSwap(seat) ==
    CASE seat = "Empty" -> "Occupied"
      [] seat = "Occupied" -> "Empty"
      [] seat = "Floor" -> "Floor"

\* impl From<&[String]> for SeatGrid
RECURSIVE SeatRowFrom(_)
SeatRowFrom(row) ==
    IF row = <<>> THEN <<>> ELSE <<SeatFrom(Head(row))>> \o SeatRowFrom(Tail(row))
RECURSIVE SeatGridFrom(_)
SeatGridFrom(raw_rows) ==
    IF raw_rows = <<>> THEN <<>>
    ELSE <<SeatRowFrom(Head(raw_rows))>> \o SeatGridFrom(Tail(raw_rows))

\* impl Index<SeatPosition> for SeatGrid: &self.rows[index.1][index.0]
SeatAt(rows, index) == rows[index[2] + 1][index[1] + 1]

\* SeatGrid::attempt_seat_lookup
attempt_seat_lookup(rows, position, translation) ==
    LET translated == <<position[1] + translation[1], position[2] + translation[2]>>
    IN  IF \/ translated[1] < 0
           \/ translated[1] >= Len(rows[1])
           \/ translated[2] < 0
           \/ translated[2] >= Len(rows)
        THEN None
        ELSE Some(SeatAt(rows, translated))

\* for i in -1..=1 { for j in -1..=1 { if i == 0 && j == 0 { continue; } .. } }
Translations ==
    << <<-1, -1>>, <<-1, 0>>, <<-1, 1>>, <<0, -1>>, <<0, 1>>, <<1, -1>>, <<1, 0>>, <<1, 1>> >>

\* SeatGrid::immediately_adjacent: the seats found, pushed in the order of the loops
RECURSIVE ImmediatelyFrom(_, _, _)
ImmediatelyFrom(rows, position, n) ==
    IF n > Len(Translations) THEN <<>>
    ELSE attempt_seat_lookup(rows, position, Translations[n])
         \o ImmediatelyFrom(rows, position, n + 1)
immediately_adjacent(rows, position) == ImmediatelyFrom(rows, position, 1)

\* the while let of visibly_adjacent going on after it pushed a seat
RECURSIVE VisibleAlong_ThroughSeats(_, _, _, _)
VisibleAlong_ThroughSeats(rows, position, step, translation) ==
    LET seat == attempt_seat_lookup(rows, position, translation)
        further == <<translation[1] + step[1], translation[2] + step[2]>>
    IN  IF seat = None THEN <<>>
        ELSE IF seat[1] # "Floor"
        THEN seat \o VisibleAlong_ThroughSeats(rows, position, step, further)
        ELSE VisibleAlong_ThroughSeats(rows, position, step, further)

\* the while let of visibly_adjacent: translation grows by (i, j) over floor,
\* the first seat that is no floor is pushed and ends the loop
RECURSIVE VisibleAlong(_, _, _, _)
VisibleAlong(rows, position, step, translation) ==
    LET seat == attempt_seat_lookup(rows, position, translation)
    IN  IF seat = None THEN <<>>
        ELSE IF seat[1] # "Floor" THEN seat
        ELSE VisibleAlong(rows, position, step,
                          <<translation[1] + step[1], translation[2] + step[2]>>)

\* SeatGrid::visibly_adjacent
RECURSIVE VisiblyFrom(_, _, _)
VisiblyFrom(rows, position, n) ==
    IF n > Len(Translations) THEN <<>>
    ELSE VisibleAlong(rows, position, Translations[n], Translations[n])
         \o VisiblyFrom(rows, position, n + 1)
visibly_adjacent(rows, position) == VisiblyFrom(rows, position, 1)

\* adjacent.iter().filter(|seat| seat.is_occupied()).count()
OccupiedAmong(adjacent) == Cardinality({k \in 1..Len(adjacent) : adjacent[k] = "Occupied"})

\* part1's seat_checker
part1_seat_checker(seat, adjacent) ==
    \/ seat = "Empty" /\ OccupiedAmong(adjacent) = 0
    \/ seat = "Occupied" /\ OccupiedAmong(adjacent) >= 4

\* part2's seat_checker
part2_seat_checker(seat, adjacent) ==
    \/ seat = "Empty" /\ OccupiedAmong(adjacent) = 0
    \/ seat = "Occupied" /\ OccupiedAmong(adjacent) >= 5

\* the closures part1 and part2 hand to simulate_step
adjacent_seats(part, rows, position) ==
    IF part = 1 THEN immediately_adjacent(rows, position) ELSE visibly_adjacent(rows, position)
seat_checker(part, seat, adjacent) ==
    IF part = 1 THEN part1_seat_checker(seat, adjacent) ELSE part2_seat_checker(seat, adjacent)

\* the positions in the order of simulate_step's two for_each
RECURSIVE PositionsFrom(_, _)
PositionsFrom(rows, y) ==
    IF y >= Len(rows) THEN <<>>
    ELSE [x \in 1..Len(rows[y + 1]) |-> <<x - 1, y>>] \o PositionsFrom(rows, y + 1)

\* simulate_step reading the adjacent seats from the grid it is writing
StepReads_NewGrid(self, new_grid) == new_grid

\* the grid simulate_step hands to adjacent_seats: self
StepReads(self, new_grid) == self

\* simulate_step's loop from the n-th position on: new_grid[(x, y)].swap()
\* where the seat of self is no floor and seat_checker says so
RECURSIVE SimulateFrom(_, _, _, _, _)
SimulateFrom(part, self, new_grid, positions, n) ==
    IF n > Len(positions) THEN new_grid
    ELSE LET position == positions[n]
             seat == SeatAt(self, position)
             swaps == /\ seat # "Floor"
                      /\ With(adjacent_seats(part, StepReads(self, new_grid), position),
                              LAMBDA adjacent : seat_checker(part, seat, adjacent))
         IN  SimulateFrom(part, self,
                 IF swaps
                 THEN [new_grid EXCEPT ![position[2] + 1][position[1] + 1] = SeatSwap(@)]
                 ELSE new_grid,
                 positions, n + 1)

\* SeatGrid::simulate_step: new_grid starts as a clone of self.rows
simulate_step(part, self) ==
    With(PositionsFrom(self, 0), LAMBDA positions : SimulateFrom(part, self, self, positions, 1))

\* SeatGrid::occupied_count
RECURSIVE occupied_count(_)
occupied_count(rows) ==
    IF rows = <<>> THEN 0
    ELSE OccupiedAmong(Head(rows)) + occupied_count(Tail(rows))

\* the input is a rectangle of MaxCells characters at most
MaxCells == 7
SeatChars == {EMPTY_SEAT, OCCUPIED_SEAT, FLOOR}

Day11Idle ==
    /\ d11_part = 0
    /\ d11_grid = <<>>
    /\ d11_next_grid = <<>>
    /\ d11_pc = "idle"
    /\ d11_result = 0

\* let mut grid = SeatGrid::from(input);
Day11Init(part) ==
    /\ d11_part = part
    /\ \E height \in 1..MaxCells : \E width \in 1..(MaxCells \div height) :
         \E input \in [1..height -> [1..width -> SeatChars]] :
            d11_grid = SeatGridFrom(input)
    /\ d11_next_grid = <<>>
    /\ d11_pc = "loop"
    /\ d11_result = 0

\* let next_grid = grid.simulate_step(..);
Day11Step ==
    /\ d11_pc = "loop"
    /\ d11_next_grid' = simulate_step(d11_part, d11_grid)
    /\ d11_pc' = "compare"
    /\ UNCHANGED <<d11_part, d11_grid, d11_result, not_d11>>

\* next_grid == grid is false: grid = next_grid; and the loop goes on
Day11Continue ==
    /\ d11_pc = "compare"
    /\ d11_next_grid # d11_grid
    /\ d11_grid' = d11_next_grid
    /\ d11_next_grid' = <<>>
    /\ d11_pc' = "loop"
    /\ UNCHANGED <<d11_part, d11_result, not_d11>>

\* next_grid == grid: break; and grid.occupied_count() is returned
Day11Break ==
    /\ d11_pc = "compare"
    /\ d11_next_grid = d11_grid
    /\ d11_pc' = "returned"
    /\ d11_result' = occupied_count(d11_grid)
    /\ UNCHANGED <<d11_part, d11_grid, d11_next_grid, not_d11>>

\* ------------------------------------------------------------------ day8
\* An Instruction is [opcode, operand]; a Computer is [accumulator,
\* instruction_pointer, executed_instructions].  instruction_pointer is a
\* usize: a value below 0 stands for the value the cast `as usize` wraps it
\* to, 2^64 more, which is no index of a program and not its length.

\* Computer::new
ComputerNew ==
    [accumulator |-> 0, instruction_pointer |-> 0, executed_instructions |-> {}]

\* Computer::execute_instruction
execute_instruction(computer, instruction) ==
    CASE instruction.opcode = "Nop" ->
            [computer EXCEPT !.instruction_pointer = @ + 1]
      [] instruction.opcode = "Acc" ->
            [computer EXCEPT !.accumulator = @ + instruction.operand,
                             !.instruction_pointer = @ + 1]
      [] instruction.opcode = "Jump" ->
            [computer EXCEPT !.instruction_pointer = @ + instruction.operand]

\* one turn of the loop of execute_program reporting the loop only after the
\* instruction was executed again
TurnOutcome_ChecksLater(computer, program) ==
    IF computer.instruction_pointer = Len(program) THEN "Ok"
    ELSE IF computer.instruction_pointer \notin 0..(Len(program) - 1) THEN "panic"
    ELSE IF computer.instruction_pointer \in computer.executed_instructions
            /\ program[computer.instruction_pointer + 1].opcode # "Acc"
    THEN "LoopDetected"
    ELSE "continue"

\* one turn of the loop of execute_program: return Err(LoopDetected), return
\* Ok, panic on &program[instruction_pointer], or execute and go on
TurnOutcome(computer, program) ==
    IF computer.instruction_pointer \in computer.executed_instructions THEN "LoopDetected"
    ELSE IF computer.instruction_pointer = Len(program) THEN "Ok"
    ELSE IF computer.instruction_pointer \notin 0..(Len(program) - 1) THEN "panic"
    ELSE "continue"

\* the turn that goes on: executed_instructions.insert, execute_instruction
TurnExecute(computer, program) ==
    execute_instruction(
        [computer EXCEPT !.executed_instructions = @ \cup {computer.instruction_pointer}],
        program[computer.instruction_pointer + 1])

\* Computer::execute_program: the outcome and the Computer it leaves
RECURSIVE execute_program(_, _)
execute_program(computer, program) ==
    IF TurnOutcome(computer, program) = "continue"
    THEN execute_program(TurnExecute(computer, program), program)
    ELSE [outcome |-> TurnOutcome(computer, program), computer |-> computer]

\* substitute_instruction: the instruction after it, and what it returns
substitute_instruction(instruction) ==
    CASE instruction.opcode = "Nop" -> [instruction EXCEPT !.opcode = "Jump"]
      [] instruction.opcode = "Jump" -> [instruction EXCEPT !.opcode = "Nop"]
      [] OTHER -> instruction
Substitutes(instruction) == instruction.opcode \in {"Nop", "Jump"}

\* the programs parse_as_instructions returns: up to MaxProgram instructions,
\* operands within MaxProgram of 0, acc operands within 1
MaxProgram == 3
Instructions ==
    [opcode : {"Nop", "Jump"}, operand : (-MaxProgram)..MaxProgram]
    \cup [opcode : {"Acc"}, operand : {-1, 0, 1}]
Programs == UNION {[1..n -> Instructions] : n \in 0..MaxProgram}

Day8Idle ==
    /\ d8_instructions = <<>>
    /\ d8_computer = <<>>
    /\ d8_pc = "idle"
    /\ d8_result = <<>>
    /\ non_halting_set = {}
    /\ d8_visited = {}
    /\ d8_trace = <<>>
    /\ d8_input = <<>>

\* part1: Computer::new().execute_program(&instructions) is entered
ExecuteInit ==
    /\ d8_instructions \in Programs
    /\ d8_computer = ComputerNew
    /\ d8_pc = "execute_program"
    /\ d8_result = <<>>
    /\ non_halting_set = {}
    /\ d8_visited = {}
    /\ d8_trace = <<>>
    /\ d8_input = d8_instructions

\* a turn of the loop that executes an instruction
ExecuteTurn ==
    /\ d8_pc = "execute_program"
    /\ TurnOutcome(d8_computer, d8_instructions) = "continue"
    /\ d8_computer' = TurnExecute(d8_computer, d8_instructions)
    /\ d8_trace' = Append(d8_trace, d8_computer.instruction_pointer)
    /\ UNCHANGED <<d8_instructions, d8_pc, d8_result, non_halting_set, d8_visited, d8_input,
                   not_d8>>

\* the turn that returns Err(LoopDetected(accumulator)) or Ok(accumulator)
ExecuteReturn ==
    /\ d8_pc = "execute_program"
    /\ TurnOutcome(d8_computer, d8_instructions) \in {"LoopDetected", "Ok"}
    /\ d8_result' = <<TurnOutcome(d8_computer, d8_instructions), d8_computer.accumulator>>
    /\ d8_pc' = "returned"
    /\ UNCHANGED <<d8_instructions, d8_computer, non_halting_set, d8_visited, d8_trace, d8_input,
                   not_d8>>

\* the turn that panics: the instruction pointer is past the end of the program
ExecutePanic ==
    /\ d8_pc = "execute_program"
    /\ TurnOutcome(d8_computer, d8_instructions) = "panic"
    /\ d8_pc' = "panicked"
    /\ UNCHANGED <<d8_instructions, d8_computer, d8_result, non_halting_set, d8_visited,
                   d8_trace, d8_input, not_d8>>

\* ------------------------------------------------------------------ day17
ACTIVE_CUBE == "#"
INACTIVE_CUBE == "."

\* impl From<char> for Cube; any other character panics
CubeFrom(value) ==
    CASE value = INACTIVE_CUBE -> "Inactive"
      [] value = ACTIVE_CUBE -> "Active"

\* the `while current_dim_val != dims` loop: one outer layer a turn
RECURSIVE AddOuterDimensions(_, _, _)
AddOuterDimensions(current_dim, current_dim_val, dims) ==
    IF current_dim_val = dims THEN current_dim
    ELSE AddOuterDimensions([kind |-> "Higher", dimension |-> current_dim_val + 1,
                             positive_index |-> <<current_dim>>, negative_index |-> <<>>],
                            current_dim_val + 1, dims)

\* each line becomes a Dimension::One(CubeRow) of its characters' cubes, the lines a
\* HigherDimension of dimension 2
parse_initial_data(input, dims) ==
    AddOuterDimensions(
        [kind |-> "Higher", dimension |-> 2,
         positive_index |->
            [r \in 1..Len(input) |->
                [kind |-> "One",
                 positive_index |-> [c \in 1..Len(input[r]) |-> CubeFrom(input[r][c])],
                 negative_index |-> <<>>]],
         negative_index |-> <<>>],
        2, dims)

\* CubeRow::dimension_range and HigherDimension::dimension_range: a Range start..end
dimension_range(d) == [start |-> -Len(d.negative_index), end |-> Len(d.positive_index)]

combine_ranges(range1, range2) ==
    IF range1 = None /\ range2 = None THEN [start |-> 0, end |-> 0]
    ELSE IF range1 = None THEN range2[1]
    ELSE IF range2 = None THEN range1[1]
    ELSE [start |-> IF range1[1].start < range2[1].start
                    THEN range1[1].start ELSE range2[1].start,
          end |-> IF range1[1].end > range2[1].end THEN range1[1].end ELSE range2[1].end]

\* HigherDimension::space_range. positive_ranges and negative_ranges are Options;
\* Option::into_iter().zip(..) yields one pair when both are Some and none otherwise,
\* and the closure hands each pair to combine_ranges
RECURSIVE HigherSpaceRange(_)
HigherSpaceRange(higher) ==
    <<dimension_range(higher)>>
    \o IF higher.positive_index = <<>> \/ higher.negative_index = <<>> THEN <<>>
       ELSE <<combine_ranges(
                IF higher.positive_index[1].kind = "One"
                THEN <<dimension_range(higher.positive_index[1])>>
                ELSE HigherSpaceRange(higher.positive_index[1]),
                IF higher.negative_index[1].kind = "One"
                THEN <<dimension_range(higher.negative_index[1])>>
                ELSE HigherSpaceRange(higher.negative_index[1]))>>

\* Dimension::space_range
space_range(d) ==
    IF d.kind = "One" THEN <<dimension_range(d)>> ELSE Reverse(HigherSpaceRange(d))

\* the initial slice of the puzzle description
SampleSlice == <<<<".", "#", ".">>, <<".", ".", "#">>, <<"#", "#", "#">>>>

MaxSide17 == 3
Slices ==
    UNION {[1..height -> [1..width -> {INACTIVE_CUBE, ACTIVE_CUBE}]] :
              height \in 1..MaxSide17, width \in 1..MaxSide17}

Day17Idle ==
    /\ d17_input = <<>>
    /\ d17_data = <<>>
    /\ d17_pc = "idle"
    /\ d17_stdout = <<>>
    /\ d17_result = None

\* part1(&input) is entered
Day17Init ==
    /\ d17_input \in Slices
    /\ d17_data = <<>>
    /\ d17_pc = "parse"
    /\ d17_stdout = <<>>
    /\ d17_result = None

\* let data = parse_initial_data(input, 2);
Day17Parse ==
    /\ d17_pc = "parse"
    /\ d17_data' = parse_initial_data(d17_input, 2)
    /\ d17_pc' = "println"
    /\ UNCHANGED <<d17_input, d17_stdout, d17_result, not_d17>>

\* println!("{:?}", data.space_range());
Day17Println ==
    /\ d17_pc = "println"
    /\ d17_stdout' = Append(d17_stdout, space_range(d17_data))
    /\ d17_pc' = "return"
    /\ UNCHANGED <<d17_input, d17_data, d17_result, not_d17>>

\* the tail expression of part1: 0
Day17Return ==
    /\ d17_pc = "return"
    /\ d17_result' = Some(0)
    /\ d17_pc' = "returned"
    /\ UNCHANGED <<d17_input, d17_data, d17_stdout, not_d17>>

\* ------------------------------------------------------------------ day8, part2
\* Computer::reset
reset(computer) ==
    [computer EXCEPT !.accumulator = 0, !.instruction_pointer = 0,
                     !.executed_instructions = {}]

\* Computer::determine_non_halting_set: panics when the program ends (or when
\* execute_program panics), else the indexes executed and the Computer reset
determine_non_halting_set(computer, program) ==
    With(execute_program(computer, program), LAMBDA r :
        IF r.outcome = "LoopDetected"
        THEN [panics |-> FALSE, non_halting_set |-> r.computer.executed_instructions,
              computer |-> reset(r.computer)]
        ELSE [panics |-> TRUE])

\* `instructions` with substitute_instruction applied to instructions[index]
SubstitutedAt(instructions, index) ==
    [instructions EXCEPT ![index + 1] = substitute_instruction(@)]

\* the body of part2's for loop for the index non_halting: return Some(result),
\* panic inside execute_program, or go on to the next index
LoopBody(computer, instructions, non_halting) ==
    IF ~Substitutes(instructions[non_halting + 1])
    THEN [kind |-> "next", computer |-> computer, instructions |-> instructions]
    ELSE With(execute_program(computer, SubstitutedAt(instructions, non_halting)), LAMBDA r :
            CASE r.outcome = "Ok" ->
                    [kind |-> "return", result |-> r.computer.accumulator,
                     computer |-> r.computer,
                     instructions |-> SubstitutedAt(instructions, non_halting)]
              [] r.outcome = "LoopDetected" ->
                    [kind |-> "next", computer |-> reset(r.computer),
                     instructions |->
                        SubstitutedAt(SubstitutedAt(instructions, non_halting), non_halting)]
              [] OTHER -> [kind |-> "panic"])

\* part2(input) is entered: the instructions parsed, Computer::new
Part2Init ==
    /\ d8_instructions \in Programs
    /\ d8_computer = ComputerNew
    /\ d8_pc = "determine"
    /\ d8_result = None
    /\ non_halting_set = {}
    /\ d8_visited = {}
    /\ d8_trace = <<>>
    /\ d8_input = d8_instructions

\* let non_halting_set = computer.determine_non_halting_set(&instructions);
Part2Determine ==
    /\ d8_pc = "determine"
    /\ \E r \in {determine_non_halting_set(d8_computer, d8_instructions)} :
        /\ ~r.panics
        /\ non_halting_set' = r.non_halting_set
        /\ d8_computer' = r.computer
    /\ d8_pc' = "for"
    /\ UNCHANGED <<d8_instructions, d8_result, d8_visited, d8_trace, d8_input, not_d8>>

\* determine_non_halting_set panics: "program did not loop!", or an index past the end
Part2DeterminePanic ==
    /\ d8_pc = "determine"
    /\ determine_non_halting_set(d8_computer, d8_instructions).panics
    /\ d8_pc' = "panicked"
    /\ UNCHANGED <<d8_instructions, d8_computer, d8_result, non_halting_set, d8_visited,
                   d8_trace, d8_input, not_d8>>

\* one turn of `for non_halting in non_halting_set.iter()`: a HashSet yields its
\* elements in an order that is not specified, so any index not yet yielded may
\* come next
Part2Try ==
    /\ d8_pc = "for"
    /\ \E non_halting \in non_halting_set \ d8_visited :
        \E r \in {LoopBody(d8_computer, d8_instructions, non_halting)} :
            /\ d8_visited' = d8_visited \cup {non_halting}
            /\ CASE r.kind = "return" ->
                        /\ d8_result' = Some(r.result)
                        /\ d8_pc' = "returned"
                        /\ d8_computer' = r.computer
                        /\ d8_instructions' = r.instructions
                 [] r.kind = "next" ->
                        /\ d8_computer' = r.computer
                        /\ d8_instructions' = r.instructions
                        /\ UNCHANGED <<d8_result, d8_pc>>
                 [] OTHER ->
                        /\ d8_pc' = "panicked"
                        /\ UNCHANGED <<d8_result, d8_computer, d8_instructions>>
    /\ UNCHANGED <<non_halting_set, d8_trace, d8_input, not_d8>>

\* the iterator is exhausted: None
Part2ReturnNone ==
    /\ d8_pc = "for"
    /\ d8_visited = non_halting_set
    /\ d8_result' = None
    /\ d8_pc' = "returned"
    /\ UNCHANGED <<d8_instructions, d8_computer, non_halting_set, d8_visited, d8_trace,
                   d8_input, not_d8>>

\* --------------------------------------------------------- specifications

\* every day but `d` has not started
IdleBut(d) ==
    /\ IF d = "main" THEN TRUE ELSE MainIdle
    /\ IF d = "day5" THEN TRUE ELSE Day5Idle
    /\ IF d = "day24" THEN TRUE ELSE Day24Idle
    /\ IF d = "edges" THEN TRUE ELSE EdgeIdle
    /\ IF d = "tilegrid" THEN TRUE ELSE TgIdle
    /\ IF d = "combat" THEN TRUE ELSE CombatIdle
    /\ IF d = "recursive" THEN TRUE ELSE RgIdle
    /\ IF d = "day11" THEN TRUE ELSE Day11Idle
    /\ IF d = "day8" THEN TRUE ELSE Day8Idle
    /\ IF d = "day17" THEN TRUE ELSE Day17Idle

InitMain == MainInit /\ IdleBut("main")
MainNext == MainRead \/ MainPrintln
SpecMain == InitMain /\ [][MainNext]_vars

Day5Next == Day5RunPart1 \/ Day5RunPart2
InitDay5 == Day5Init /\ IdleBut("day5")
SpecDay5 == InitDay5 /\ [][Day5Next]_vars

InitDay24 == Day24Init /\ IdleBut("day24")
Day24Next == Day24Worker \/ Day24Reduce
SpecDay24 == InitDay24 /\ [][Day24Next]_vars

InitDay24Around == Day24InitAround /\ IdleBut("day24")
SpecDay24Around == InitDay24Around /\ [][Day24Next]_vars

InitEdges == EdgeInit /\ IdleBut("edges")
EdgeNext == EdgeRotate \/ EdgeFlip
SpecEdges == InitEdges /\ [][EdgeNext]_vars

InitTileGrid == TgInit /\ IdleBut("tilegrid")
TgNext == TgStart \/ TgScan \/ TgInsert \/ TgEndRound \/ TgReturn
SpecTileGrid == InitTileGrid /\ [][TgNext]_vars

InitCombat == CombatInit /\ IdleBut("combat")
CombatNext == CombatPlayRound \/ CombatGameOver
SpecCombat == InitCombat /\ [][CombatNext]_vars

InitRecursive == RgInit /\ IdleBut("recursive")
RgNext == RgPlayRound \/ RgGameOver
SpecRecursive == InitRecursive /\ [][RgNext]_vars

InitDay11Part1 == Day11Init(1) /\ IdleBut("day11")
InitDay11Part2 == Day11Init(2) /\ IdleBut("day11")
Day11Next == Day11Step \/ Day11Continue \/ Day11Break
SpecDay11Part1 == InitDay11Part1 /\ [][Day11Next]_vars
SpecDay11Part2 == InitDay11Part2 /\ [][Day11Next]_vars

InitExecute == ExecuteInit /\ IdleBut("day8")
ExecuteNext == ExecuteTurn \/ ExecuteReturn \/ ExecutePanic
SpecExecute == InitExecute /\ [][ExecuteNext]_vars

InitDay17 == Day17Init /\ IdleBut("day17")
Day17Next == Day17Parse \/ Day17Println \/ Day17Return
SpecDay17 == InitDay17 /\ [][Day17Next]_vars

InitPart2 == Part2Init /\ IdleBut("day8")
Part2Next == Part2Determine \/ Part2DeterminePanic \/ Part2Try \/ Part2ReturnNone
SpecDay8Part2 == InitPart2 /\ [][Part2Next]_vars

\* ------------------------------------------------------------------ claims

\* C1: every day's program, run to completion on a well-formed input, has
\* printed exactly two lines, "Part 1 result is X" then "Part 2 result is Y".
C1_TwoLabelledLines ==
    (MainExited /\ input_file = "well-formed") =>
        [i \in 1..Len(stdout) |-> stdout[i].label]
            = <<"Part 1 result is ", "Part 2 result is ">>

\* C2: an input with a line the parser rejects never gets a result printed:
\* the run aborts instead.
C2_MalformedInputAborts ==
    (\E i \in 1..Len(d5_input) : ~SeatTryFrom(d5_input[i]).ok) =>
        d5_stdout = <<>>

\* what one sequential pass over the snapshot S produces
SequentialPass(S) ==
    LET ActiveNeighbours(h) == Cardinality({i \in 1..6 : adjacent_hexes(h)[i] \in S})
        deactivated == {h \in S : ActiveNeighbours(h) = 0 \/ ActiveNeighbours(h) > 2}
        Count(a) == Cardinality({h \in S : a \in Range(adjacent_hexes(h))})
        touched == UNION {Range(adjacent_hexes(h)) : h \in S}
    IN  (S \ deactivated) \cup {a \in touched : Count(a) = 2}

\* C3: while the parallel workers run, the set of active hexagons is the
\* snapshot the step began with (the workers only read it), and whatever the
\* interleaving of the workers, the set the step returns is the set a
\* sequential pass over that snapshot produces.
C3_WorkersOnlyRead ==
    /\ d24_pc = "par_iter" => active_hexes = d24_snapshot
    /\ d24_pc = "returned" => active_hexes = SequentialPass(d24_snapshot)

\* a step over three hexagons has returned, at least one of them deactivated
\* and at least one hexagon activated
C3_Witness ==
    /\ d24_pc = "returned"
    /\ Cardinality(d24_snapshot) = 3
    /\ d24_snapshot \ active_hexes # {}
    /\ active_hexes \ d24_snapshot # {}

\* C5: after any sequence of rotate_clockwise and flip_horizontally applied
\* to a square Tile and, in step, to its Edges, the Edges are the edges read
\* off the Tile: its top row, right column, bottom row and left column.
C5_EdgesFollowTile ==
    e_tile # <<>> =>
        /\ e_edges.top = e_tile.rows[1]
        /\ e_edges.bottom = e_tile.rows[Len(e_tile.rows)]
        /\ e_edges.left = [r \in 1..Len(e_tile.rows) |-> e_tile.rows[r][1]]
        /\ e_edges.right = [r \in 1..Len(e_tile.rows) |-> e_tile.rows[r][Len(e_tile.rows[1])]]

\* a tile with four different edges after a rotation, a flip and a rotation
C5_Witness ==
    /\ e_ops = <<"rotate_clockwise", "flip_horizontally", "rotate_clockwise">>
    /\ Cardinality({e_edges.top, e_edges.right, e_edges.bottom, e_edges.left}) = 4

\* the ids of the tiles in the cells of the grid, cell by cell
GridIds ==
    [k \in 1..(Len(tg_tiles) * Len(tg_tiles)) |->
        LET cell == tg_tiles[((k - 1) \div Len(tg_tiles)) + 1][((k - 1) % Len(tg_tiles)) + 1]
        IN  IF cell = <<>> THEN 0 ELSE cell[1].id]

\* C4: when insert_tiles has returned, every input tile is in exactly one
\* cell, no occupied cell was overwritten, and neighbouring cells hold tiles
\* whose facing edges are equal.
C4_GridAssembled ==
    tg_pc = "returned" =>
        /\ ~tg_overwritten
        /\ \A i \in 1..Len(tg_input) :
              Cardinality({k \in DOMAIN GridIds : GridIds[k] = tg_input[i].id}) = 1
        /\ \A y \in 1..Len(tg_tiles) : \A x \in 1..Len(tg_tiles) :
              /\ tg_tiles[y][x] # <<>>
              /\ x < Len(tg_tiles) =>
                    /\ tg_tiles[y][x + 1] # <<>>
                    /\ TileRightColumn(tg_tiles[y][x][1]) = TileLeftColumn(tg_tiles[y][x + 1][1])
              /\ y < Len(tg_tiles) =>
                    /\ tg_tiles[y + 1][x] # <<>>
                    /\ TileBottomRow(tg_tiles[y][x][1]) = TileTopRow(tg_tiles[y + 1][x][1])

\* C6: a round of Combat is played only while both players have cards; in it
\* both draw their top card and the player with the higher card gets both at
\* the bottom of their deck, their own card first.  The game ends as soon as
\* a player has no cards and part1 returns the winner's score: the sum of
\* card value times position counted from the bottom of the winner's deck.
C6_Combat ==
    /\ c_round # <<>> =>
          /\ c_round[1] # <<>> /\ c_round[2] # <<>>
          /\ LET top1 == Head(c_round[1])
                 top2 == Head(c_round[2])
             IN  IF top1 > top2
                 THEN /\ player1 = Tail(c_round[1]) \o <<top1, top2>>
                      /\ player2 = Tail(c_round[2])
                 ELSE /\ player1 = Tail(c_round[1])
                      /\ player2 = Tail(c_round[2]) \o <<top2, top1>>
    /\ c_pc = "returned" =>
          /\ player1 = <<>> \/ player2 = <<>>
          /\ LET winner == IF player1 = <<>> THEN player2 ELSE player1
             IN  c_score = SeqSum([k \in 1..Len(winner) |-> winner[k] * (Len(winner) + 1 - k)])

\* a game that ended after a round player 2 won, scored over four cards or more
C6_Witness ==
    /\ c_pc = "returned"
    /\ c_round # <<>>
    /\ player1 = <<>>
    /\ Len(player2) >= 4
    /\ c_score > 0

\* C7: in RecursiveGame, before either player deals a card in a round, if an
\* earlier round of the same game started with exactly the same cards in the
\* same order in the same decks, the game ends at once with a win for
\* player 1 and no card is drawn; otherwise the round is played.  The history
\* is per game: only the rounds of the game itself count, not those of the
\* game that waits for it.
C7_RepeatedRound ==
    [][ LET depth == Len(rg_stack)
            game == rg_stack[depth]
            decks == <<game.player1, game.player2>>
        IN  (rg_pc = "play" /\ game.player1 # <<>> /\ game.player2 # <<>>) =>
                IF decks \in game.round_starts
                THEN rg_ended' = [depth |-> depth, player1_won |-> TRUE,
                                  player1 |-> game.player1, player2 |-> game.player2]
                ELSE /\ rg_ended' = rg_ended
                     /\ Len(rg_stack') >= depth
                     /\ rg_stack'[depth].round_starts = game.round_starts \cup {decks}
                     /\ Len(rg_stack'[depth].player1) + Len(rg_stack'[depth].player2)
                            + Len(rg_stack'[depth].played)
                          = Len(game.player1) + Len(game.player2)
                     /\ Len(rg_stack') > depth => rg_stack'[depth + 1].previously_played = {}
      ]_vars

\* a game has ended with both players still holding cards: its decks repeated
C7_Witness ==
    /\ rg_ended # <<>>
    /\ rg_ended.player1_won
    /\ rg_ended.player1 # <<>>
    /\ rg_ended.player2 # <<>>

\* C8: in a round of RecursiveGame that is played, both draw their top card;
\* if each player has at least as many cards left as the value just drawn,
\* a new game is played on copies of the next that-many cards of each deck,
\* its winner wins the round and the decks of the waiting game are not
\* changed by it; otherwise the higher card wins the round.  The winner of the
\* round puts both cards at the bottom of their deck, their own card first.
C8_Recursion ==
    [][ LET depth == Len(rg_stack)
            game == rg_stack[depth]
            decks == <<game.player1, game.player2>>
        IN  /\ \A i \in 1..(depth - 1) :
                   (i < depth - 1 \/ Len(rg_stack') >= depth) =>
                       /\ rg_stack'[i].player1 = rg_stack[i].player1
                       /\ rg_stack'[i].player2 = rg_stack[i].player2
            /\ (/\ rg_pc = "play" /\ game.player1 # <<>> /\ game.player2 # <<>>
                /\ decks \notin game.round_starts) =>
                   LET card1 == Head(game.player1)
                       card2 == Head(game.player2)
                       rest1 == Tail(game.player1)
                       rest2 == Tail(game.player2)
                   IN  IF card1 <= Len(rest1) /\ card2 <= Len(rest2)
                       THEN /\ Len(rg_stack') = depth + 1
                            /\ rg_stack'[depth].player1 = rest1
                            /\ rg_stack'[depth].player2 = rest2
                            /\ rg_stack'[depth].played = <<card1, card2>>
                            /\ rg_stack'[depth + 1].player1 = SubSeq(rest1, 1, card1)
                            /\ rg_stack'[depth + 1].player2 = SubSeq(rest2, 1, card2)
                       ELSE /\ Len(rg_stack') = depth
                            /\ IF card1 > card2
                               THEN /\ rg_stack'[depth].player1 = rest1 \o <<card1, card2>>
                                    /\ rg_stack'[depth].player2 = rest2
                               ELSE /\ rg_stack'[depth].player1 = rest1
                                    /\ rg_stack'[depth].player2 = rest2 \o <<card2, card1>>
            /\ Len(rg_stack') = depth - 1 =>
                   LET waiting == rg_stack[depth - 1]
                       card1 == waiting.played[1]
                       card2 == waiting.played[2]
                   IN  IF game.player1 # <<>>
                       THEN /\ rg_stack'[depth - 1].player1 = waiting.player1 \o <<card1, card2>>
                            /\ rg_stack'[depth - 1].player2 = waiting.player2
                       ELSE /\ rg_stack'[depth - 1].player1 = waiting.player1
                            /\ rg_stack'[depth - 1].player2 = waiting.player2 \o <<card2, card1>>
      ]_vars

\* a sub-game has just ended and its winner, player 1, took the round with the
\* lower card
C8_Witness ==
    /\ rg_ended # <<>>
    /\ rg_ended.depth = Len(rg_stack) + 1
    /\ rg_ended.player1_won
    /\ LET deck == rg_stack[Len(rg_stack)].player1
       IN  Len(deck) >= 2 /\ deck[Len(deck) - 1] < deck[Len(deck)]

\* the cells of a grid, column and row counted from 1
Cells(rows) == (1..Len(rows[1])) \X (1..Len(rows))

\* the number of occupied seats among the up to 8 cells around <<x, y>>
OccupiedAround(rows, x, y) ==
    Cardinality({c \in ((x - 1)..(x + 1)) \X ((y - 1)..(y + 1)) :
                    /\ c # <<x, y>>
                    /\ c[1] \in 1..Len(rows[1])
                    /\ c[2] \in 1..Len(rows)
                    /\ rows[c[2]][c[1]] = "Occupied"})

\* a seat after a step of the first rules
NextSeat1(rows, x, y) ==
    IF rows[y][x] = "Empty" THEN
        IF OccupiedAround(rows, x, y) = 0 THEN "Occupied" ELSE "Empty"
    ELSE IF rows[y][x] = "Occupied" THEN
        IF OccupiedAround(rows, x, y) >= 4 THEN "Empty" ELSE "Occupied"
    ELSE rows[y][x]

\* C9: simulate_step takes every seat's next state from the grid as it was
\* before the step: with immediately_adjacent an empty seat with no occupied
\* seat around it becomes occupied, an occupied seat with four or more
\* occupied seats around it becomes empty, every other seat keeps its state.
\* part1 repeats the step until a step changes nothing and returns the
\* number of occupied seats.
C9_SimultaneousStep ==
    /\ d11_pc \in {"compare", "returned"} =>
          \A c \in Cells(d11_grid) : d11_next_grid[c[2]][c[1]] = NextSeat1(d11_grid, c[1], c[2])
    /\ d11_pc = "returned" =>
          /\ d11_next_grid = d11_grid
          /\ d11_result = Cardinality({c \in Cells(d11_grid) : d11_grid[c[2]][c[1]] = "Occupied"})

\* a step of part1 has left a seat that had four or more occupied seats around
\* it and kept a seat that had three
C9_Witness ==
    /\ d11_part = 1
    /\ d11_pc = "compare"
    /\ \E c \in Cells(d11_grid) :
          /\ d11_grid[c[2]][c[1]] = "Occupied"
          /\ OccupiedAround(d11_grid, c[1], c[2]) >= 4
          /\ d11_next_grid[c[2]][c[1]] = "Empty"
    /\ \E c \in Cells(d11_grid) :
          /\ d11_grid[c[2]][c[1]] = "Occupied"
          /\ OccupiedAround(d11_grid, c[1], c[2]) = 3
          /\ d11_next_grid[c[2]][c[1]] = "Occupied"

\* how far the seats that are no floor are from <<x, y>> along <<i, j>>
SeatDistances(rows, x, y, i, j) ==
    {k \in 1..(IF Len(rows) > Len(rows[1]) THEN Len(rows) ELSE Len(rows[1])) :
        /\ x + k * i \in 1..Len(rows[1])
        /\ y + k * j \in 1..Len(rows)
        /\ rows[y + k * j][x + k * i] # "Floor"}

\* the first seat that is no floor along <<i, j>>, if any
FirstSeat(rows, x, y, i, j) ==
    With(SeatDistances(rows, x, y, i, j),
         LAMBDA distances :
            IF distances = {} THEN <<>>
            ELSE LET nearest == CHOOSE k \in distances : \A m \in distances : k <= m
                 IN  <<rows[y + nearest * j][x + nearest * i]>>)

\* the first seats of the 8 directions
FirstSeats(rows, x, y) ==
    FirstSeat(rows, x, y, -1, -1) \o FirstSeat(rows, x, y, -1, 0) \o FirstSeat(rows, x, y, -1, 1)
    \o FirstSeat(rows, x, y, 0, -1) \o FirstSeat(rows, x, y, 0, 1)
    \o FirstSeat(rows, x, y, 1, -1) \o FirstSeat(rows, x, y, 1, 0) \o FirstSeat(rows, x, y, 1, 1)

\* C10: visibly_adjacent returns, for each of the 8 directions from a
\* position, the first seat that is no floor met along the direction before
\* the edge of the grid, if any: at most one seat per direction and never a
\* seat behind another seat.  part2 empties an occupied seat exactly when five
\* or more of these seats are occupied.
C10_VisibleSeats ==
    /\ d11_pc = "compare" =>
          \A c \in Cells(d11_grid) :
              visibly_adjacent(d11_grid, <<c[1] - 1, c[2] - 1>>) = FirstSeats(d11_grid, c[1], c[2])
    /\ d11_pc = "compare" =>
          \A c \in Cells(d11_grid) :
              d11_grid[c[2]][c[1]] = "Occupied" =>
                  (d11_next_grid[c[2]][c[1]] = "Empty"
                     <=> OccupiedAmong(FirstSeats(d11_grid, c[1], c[2])) >= 5)

\* a step of part2 has emptied a seat that saw five occupied seats or more, in
\* a grid where a seat hides another seat
C10_Witness ==
    /\ d11_part = 2
    /\ d11_pc = "compare"
    /\ \E c \in Cells(d11_grid) :
          /\ d11_grid[c[2]][c[1]] = "Occupied"
          /\ d11_next_grid[c[2]][c[1]] = "Empty"
    /\ \E c \in Cells(d11_grid) : \E i, j \in {-1, 0, 1} :
          /\ <<i, j>> # <<0, 0>>
          /\ Cardinality(SeatDistances(d11_grid, c[1], c[2], i, j)) >= 2

\* the hexagons of the floor up to three steps from the reference hexagon
FloorAround == {p \in (-3..3) \X (-3..3) \X (-3..3) : p[1] + p[2] + p[3] = 0}

\* the number of the six hexagons next to h that are in S
ActiveNextTo(S, h) ==
    Cardinality({n \in S :
                    /\ n # h
                    /\ n[1] + n[2] + n[3] = h[1] + h[2] + h[3]
                    /\ \A i \in 1..3 : n[i] - h[i] \in {-1, 0, 1}})

\* C11: one call of simulate_step_par applies the daily rule to the whole
\* floor at once: an active hexagon with no or with more than two active
\* neighbours among the six next to it becomes inactive, an inactive hexagon
\* with exactly two active neighbours becomes active, every other hexagon
\* keeps its state.
C11_DailyRule ==
    d24_pc = "returned" =>
        /\ active_hexes \subseteq FloorAround
        /\ \A h \in FloorAround :
              h \in active_hexes <=>
                  IF h \in d24_snapshot
                  THEN ActiveNextTo(d24_snapshot, h) \in {1, 2}
                  ELSE ActiveNextTo(d24_snapshot, h) = 2

\* a step has returned in which a hexagon with three active neighbours became
\* inactive, one with one or two stayed active and an inactive one with two
\* became active
C11_Witness ==
    /\ d24_pc = "returned"
    /\ \E h \in d24_snapshot \ active_hexes : ActiveNextTo(d24_snapshot, h) = 3
    /\ \E h \in d24_snapshot \cap active_hexes : ActiveNextTo(d24_snapshot, h) \in {1, 2}
    /\ \E h \in active_hexes \ d24_snapshot : ActiveNextTo(d24_snapshot, h) = 2

\* the accumulator after the instructions at the indexes of trace, in turn
RECURSIVE AccumulatedOver(_, _)
AccumulatedOver(program, trace) ==
    IF trace = <<>> THEN 0
    ELSE (IF program[Head(trace) + 1].opcode = "Acc" THEN program[Head(trace) + 1].operand ELSE 0)
         + AccumulatedOver(program, Tail(trace))

C12_Executed ==
    /\ \A i, j \in 1..Len(d8_trace) : d8_trace[i] = d8_trace[j] => i = j
    /\ d8_computer.accumulator = AccumulatedOver(d8_instructions, d8_trace)
    /\ d8_pc = "returned" =>
          /\ d8_result[2] = AccumulatedOver(d8_instructions, d8_trace)
          /\ d8_result[1] = "LoopDetected" =>
                \E i \in 1..Len(d8_trace) : d8_trace[i] = d8_computer.instruction_pointer
          /\ d8_result[1] = "Ok" <=> d8_computer.instruction_pointer = Len(d8_instructions)
    /\ d8_pc = "panicked" => d8_computer.instruction_pointer # Len(d8_instructions)

C12_Stops ==
    d8_pc = "execute_program" =>
        /\ (\E i \in 1..Len(d8_trace) : d8_trace[i] = d8_computer.instruction_pointer) =>
               /\ d8_pc' = "returned"
               /\ d8_result' = <<"LoopDetected", d8_computer.accumulator>>
               /\ d8_trace' = d8_trace
        /\ d8_computer.instruction_pointer = Len(d8_instructions) =>
               /\ d8_pc' = "returned"
               /\ d8_result' = <<"Ok", d8_computer.accumulator>>

\* C12: execute_program, started on a fresh Computer, stops the first time
\* the instruction pointer is an index that was executed before, without
\* executing that instruction again, and reports LoopDetected with the
\* accumulator of that moment; it returns Ok(accumulator) exactly when the
\* instruction pointer reaches program.len().
C12_ExecuteProgram == [] C12_Executed /\ [][C12_Stops]_vars

\* a program has run into an instruction it executed before, two or more
\* instructions executed and the accumulator changed
C12_Witness ==
    /\ d8_pc = "returned"
    /\ d8_result[1] = "LoopDetected"
    /\ d8_result[2] # 0
    /\ Len(d8_trace) >= 2
    /\ d8_computer.instruction_pointer # 0

\* C13: day17's part1, given the sample initial slice ('.#.', '..#', '###'), returns 112,
\* the answer its unit test expects for that sample.
C13_SampleIs112 ==
    (d17_pc = "returned" /\ d17_input = SampleSlice) => d17_result = Some(112)

\* part2's for loop run over the indexes in the order `order`: what it returns, if
\* it returns
RECURSIVE Part2Loop(_, _, _)
Part2Loop(computer, instructions, order) ==
    IF order = <<>> THEN [returns |-> TRUE, value |-> None]
    ELSE With(LoopBody(computer, instructions, Head(order)), LAMBDA r :
            CASE r.kind = "return" -> [returns |-> TRUE, value |-> Some(r.result)]
              [] r.kind = "next" -> Part2Loop(r.computer, r.instructions, Tail(order))
              [] OTHER -> [returns |-> FALSE])

\* the values part2(input) returns over all iteration orders of its non-halting set
Part2Values(input) ==
    With(determine_non_halting_set(ComputerNew, input), LAMBDA d :
        IF d.panics THEN {}
        ELSE {run.value : run \in {r \in {Part2Loop(d.computer, input, order) :
                                            order \in Orders(d.non_halting_set)} :
                                     r.returns}})

\* C14: day8's part2 is a pure function of its input program: its return value is
\* the same for every order in which the indexes of the non-halting set are tried.
C14_OrderIndependent ==
    d8_pc = "returned" => Part2Values(d8_input) = {d8_result}

====
